---- MODULE Spec2Model ----
(***************************************************************************)
(* Model of the telegram presentation of TeaDove/telegram-client-utils:    *)
(* Presentation.login, Presentation.routeMessage and Presentation.Run      *)
(* (src/internal/container/container.go, package telegram).                *)
(*                                                                         *)
(* Strings of the program are sequences of one-character strings, so that  *)
(* strings.Fields, firstMessage[0] and firstMessage[1:] are computed as    *)
(* the code computes them.  A Go error is a sequence of messages: nil is   *)
(* the empty sequence and errors.Join concatenates.                        *)
(***************************************************************************)
EXTENDS Integers, Sequences, FiniteSets, TLC

\* ------------------------------------------------------------------ bounds
\* Largest number of whitespace-separated tokens of a generated message text.
MaxTokens == 2

\* Largest reading of the monotonic clock that time.Now() reads.
MaxClock == 1

\* Largest number of updates whose delivery is recorded in order.
MaxDeliveries == 2

\* ------------------------------------------------------------------ errors
nil == <<>>

BadUpdate == <<"bad update">>

ErrAuthenticating == <<"error while authenticating">>

\* Errors returned by the collaborators the code calls.
ErrStatus == <<"auth status failed">>
ErrFlow == <<"auth flow failed">>
ErrSend == <<"send failed">>
ErrSpam == <<"spam reaction failed">>
ErrHandler == <<"command handler failed">>
ErrTransport == <<"transport failed">>

\* errors.Join(a, b): the non-nil errors of a and b, in order.
Join(a, b) == a \o b

\* ------------------------------------------------------------------ text
commandPrefix == "!"

\* unicode.IsSpace on the characters the model generates.
Whitespace == {" ", "\t", "\n"}

ping == <<"p", "i", "n", "g">>
help == <<"h", "e", "l", "p">>
getMe == <<"g", "e", "t", "M", "e">>
spamReaction == <<"s", "p", "a", "m", "R", "e", "a", "c", "t", "i", "o", "n">>

\* The static registration table built by MustNewTelegramPresentation.
commandHandler ==
    (ping :> "pingCommandHandler")
    @@ (help :> "helpCommandHandler")
    @@ (getMe :> "getMeCommandHandler")
    @@ (spamReaction :> "spamReactionCommandHandler")

\* strings.Fields: split s around each run of white space characters.
RECURSIVE FieldsFrom(_, _, _, _)
FieldsFrom(s, i, cur, acc) ==
    IF i > Len(s)
    THEN IF cur = <<>> THEN acc ELSE Append(acc, cur)
    ELSE IF s[i] \in Whitespace
         THEN FieldsFrom(s, i + 1, <<>>, IF cur = <<>> THEN acc ELSE Append(acc, cur))
         ELSE FieldsFrom(s, i + 1, Append(cur, s[i]), acc)

Fields(s) == FieldsFrom(s, 1, <<>>, <<>>)

\* ------------------------------------------------------------------ inputs
\* First tokens: the four registered commands, a name differing in letter
\* case, a bare prefix, a doubled prefix, words without the prefix (one of
\* them a registered name behind another first character).
FirstWords ==
    { <<"!">> \o ping, <<"!">> \o help, <<"!">> \o getMe, <<"!">> \o spamReaction,
      <<"!", "P", "i", "n", "g">>, <<"!">>, <<"!", "!">> \o ping,
      <<"h", "i">>, ping, <<"x">> \o ping }

RestWords == { <<"r", "e", "s", "t">>, <<"!">> \o help }

Separators == { <<" ">>, <<"\t", "\n">> }

Leads == { <<>>, <<" ">> }

BlankTexts == { <<>>, <<" ">>, <<"\t", "\n">> }

\* The tails of up to n further tokens, each preceded by a separator.
RECURSIVE Rests(_)
Rests(n) ==
    IF n <= 0
    THEN { <<>> }
    ELSE Rests(n - 1)
         \cup { sep \o w \o r : sep \in Separators, w \in RestWords, r \in Rests(n - 1) }

Texts ==
    BlankTexts
    \cup { lead \o w \o r : lead \in Leads, w \in FirstWords, r \in Rests(MaxTokens - 1) }

\* update.GetMessage(): a *tg.Message, or another MessageClass
\* (MessageEmpty, MessageService) for which the type assertion fails.
Message(post, text) == [shape |-> "Message", Post |-> post, Message |-> text]

Updates ==
    { Message(post, text) : post \in BOOLEAN, text \in Texts }
    \cup { [shape |-> "MessageService", Post |-> FALSE, Message |-> <<>>],
           [shape |-> "MessageEmpty", Post |-> FALSE, Message |-> <<>>] }

\* Readings of the monotonic clock.
Clock == 0 .. MaxClock

\* ------------------------------------------------------------ routeMessage
\* What one call of routeMessage did: the error it returned, the handlers it
\* invoked (in order, each with the message it was passed) and what it logged.
Outcome(ret, calls, log) == [ret |-> ret, calls |-> calls, log |-> log]

Call(fn, m) == [fn |-> fn, m |-> m]

\* A log event; dur is <<>> for an event without a "dur" field.
Log(level, status, command) ==
    [level |-> level, status |-> status, command |-> command, dur |-> <<>>]

LogDur(level, status, dur) ==
    [level |-> level, status |-> status, command |-> <<>>, dur |-> << dur >>]

\* routeCommand with the prefix left on the command name (command :=
\* firstMessage instead of firstMessage[1:]).
routeCommand_keepPrefix(m, fields, handlerErr, t0, t1) ==
    LET firstMessage == fields[1] IN
    IF Len(firstMessage) < 1
    THEN Outcome(nil, <<>>, <<>>)
    ELSE IF firstMessage[1] # commandPrefix
    THEN Outcome(nil, <<>>, <<>>)
    ELSE LET command == firstMessage IN
         IF command \notin DOMAIN commandHandler
         THEN Outcome(nil, <<>>, << Log("warn", "unknown.command", command) >>)
         ELSE LET handler == commandHandler[command]
                  got == Log("info", "command.got", command)
              IN  IF handlerErr # nil
                  THEN Outcome(handlerErr, << Call(handler, m) >>, << got >>)
                  ELSE Outcome(nil, << Call(handler, m) >>,
                               << got, LogDur("info", "ok", t1 - t0) >>)

\* routeCommand without the test of the first character against the prefix.
routeCommand_noPrefixCheck(m, fields, handlerErr, t0, t1) ==
    LET firstMessage == fields[1] IN
    IF Len(firstMessage) < 1
    THEN Outcome(nil, <<>>, <<>>)
    ELSE LET command == Tail(firstMessage) IN
         IF command \notin DOMAIN commandHandler
         THEN Outcome(nil, <<>>, << Log("warn", "unknown.command", command) >>)
         ELSE LET handler == commandHandler[command]
                  got == Log("info", "command.got", command)
              IN  IF handlerErr # nil
                  THEN Outcome(handlerErr, << Call(handler, m) >>, << got >>)
                  ELSE Outcome(nil, << Call(handler, m) >>,
                               << got, LogDur("info", "ok", t1 - t0) >>)

\* routeCommand with the command name lower-cased before the lookup.
routeCommand_foldCase(m, fields, handlerErr, t0, t1) ==
    LET firstMessage == fields[1] IN
    IF Len(firstMessage) < 1
    THEN Outcome(nil, <<>>, <<>>)
    ELSE IF firstMessage[1] # commandPrefix
    THEN Outcome(nil, <<>>, <<>>)
    ELSE LET name == Tail(firstMessage)
             command == [n \in DOMAIN name |-> IF name[n] = "P" THEN "p" ELSE name[n]]
         IN
         IF command \notin DOMAIN commandHandler
         THEN Outcome(nil, <<>>, << Log("warn", "unknown.command", command) >>)
         ELSE LET handler == commandHandler[command]
                  got == Log("info", "command.got", command)
              IN  IF handlerErr # nil
                  THEN Outcome(handlerErr, << Call(handler, m) >>, << got >>)
                  ELSE Outcome(nil, << Call(handler, m) >>,
                               << got, LogDur("info", "ok", t1 - t0) >>)

\* routeCommand that swallows the handler's error: it logs "ok" and returns
\* nil whatever the handler returned.
routeCommand_swallowError(m, fields, handlerErr, t0, t1) ==
    LET firstMessage == fields[1] IN
    IF Len(firstMessage) < 1
    THEN Outcome(nil, <<>>, <<>>)
    ELSE IF firstMessage[1] # commandPrefix
    THEN Outcome(nil, <<>>, <<>>)
    ELSE LET command == Tail(firstMessage) IN
         IF command \notin DOMAIN commandHandler
         THEN Outcome(nil, <<>>, << Log("warn", "unknown.command", command) >>)
         ELSE LET handler == commandHandler[command]
                  got == Log("info", "command.got", command)
              IN  Outcome(nil, << Call(handler, m) >>,
                          << got, LogDur("info", "ok", t1 - t0) >>)

\* Lines 181-206: the command path, after the secondary handler succeeded.
routeCommand(m, fields, handlerErr, t0, t1) ==
    LET firstMessage == fields[1] IN
    IF Len(firstMessage) < 1
    THEN Outcome(nil, <<>>, <<>>)
    ELSE IF firstMessage[1] # commandPrefix
    THEN Outcome(nil, <<>>, <<>>)
    ELSE LET command == Tail(firstMessage) IN
         IF command \notin DOMAIN commandHandler
         THEN Outcome(nil, <<>>, << Log("warn", "unknown.command", command) >>)
         ELSE LET handler == commandHandler[command]
                  got == Log("info", "command.got", command)
              IN  IF handlerErr # nil
                  THEN Outcome(handlerErr, << Call(handler, m) >>, << got >>)
                  ELSE Outcome(nil, << Call(handler, m) >>,
                               << got, LogDur("info", "ok", t1 - t0) >>)

\* routeFields with the secondary handler run before the test for zero tokens.
routeFields_spamFirst(m, spamErr, handlerErr, t0, t1) ==
    LET fields == Fields(m.Message)
        spam == Call("spamReactionMessageHandler", m)
    IN
    IF spamErr # nil
    THEN Outcome(spamErr, << spam >>, <<>>)
    ELSE IF Len(fields) = 0
    THEN Outcome(nil, << spam >>, <<>>)
    ELSE LET c == routeCommand(m, fields, handlerErr, t0, t1) IN
         Outcome(c.ret, << spam >> \o c.calls, c.log)

\* routeFields with the command path run before the secondary handler.
routeFields_commandFirst(m, spamErr, handlerErr, t0, t1) ==
    LET fields == Fields(m.Message) IN
    IF Len(fields) = 0
    THEN Outcome(nil, <<>>, <<>>)
    ELSE LET spam == Call("spamReactionMessageHandler", m)
             c == routeCommand(m, fields, handlerErr, t0, t1)
         IN  IF c.ret # nil
             THEN c
             ELSE Outcome(spamErr, c.calls \o << spam >>, c.log)

\* Lines 171-179: tokenize, drop a message without tokens, run the secondary
\* handler, then the command path.
routeFields(m, spamErr, handlerErr, t0, t1) ==
    LET fields == Fields(m.Message) IN
    IF Len(fields) = 0
    THEN Outcome(nil, <<>>, <<>>)
    ELSE LET spam == Call("spamReactionMessageHandler", m) IN
         IF spamErr # nil
         THEN Outcome(spamErr, << spam >>, <<>>)
         ELSE LET c == routeCommand(m, fields, handlerErr, t0, t1) IN
              Outcome(c.ret, << spam >> \o c.calls, c.log)

\* routeMessage without the test of m.Post.
routeMessage_noPostCheck(update, spamErr, handlerErr, t0, t1) ==
    IF update.shape # "Message"
    THEN Outcome(BadUpdate, <<>>, <<>>)
    ELSE LET r == routeFields(update, spamErr, handlerErr, t0, t1) IN
         Outcome(r.ret, r.calls, << Log("debug", "message.got", <<>>) >> \o r.log)

\* Lines 156-207.  spamErr and handlerErr are the results the secondary
\* handler and the command handler return when they are invoked.
routeMessage(update, spamErr, handlerErr, t0, t1) ==
    IF update.shape # "Message"
    THEN Outcome(BadUpdate, <<>>, <<>>)
    ELSE IF update.Post
    THEN Outcome(nil, <<>>, <<>>)
    ELSE LET r == routeFields(update, spamErr, handlerErr, t0, t1) IN
         Outcome(r.ret, r.calls, << Log("debug", "message.got", <<>>) >> \o r.log)

\* ------------------------------------------------------------------ state
Kinds == {"NewChannelMessage", "NewMessage"}

\* The updates the transport delivers while Run is alive: one of each class
\* routeMessage tells apart.
RunUpdates ==
    { [shape |-> "MessageService", Post |-> FALSE, Message |-> <<>>],
      Message(TRUE, <<"!">> \o ping),
      Message(FALSE, <<"h", "i">>),
      Message(FALSE, <<"!">> \o ping) }

\* Results of Auth().Status: the status value (a nil pointer when ptr is
\* "nil") and the error.  With a non-nil error the value is whatever the
\* transport library returns; the code reads it before it looks at the error.
StatusResults ==
    { [ptr |-> "ok", Authorized |-> TRUE, err |-> nil],
      [ptr |-> "ok", Authorized |-> FALSE, err |-> nil],
      [ptr |-> "nil", Authorized |-> FALSE, err |-> ErrStatus],
      [ptr |-> "ok", Authorized |-> FALSE, err |-> ErrStatus],
      [ptr |-> "ok", Authorized |-> TRUE, err |-> ErrStatus] }

VARIABLES
    runPc,        \* where Run (and login inside it) stands
    authState,    \* Unauthenticated, Authenticating, Authorized, Failed
    status,       \* <<>> or <<the result of Auth().Status>>
    loginErr,     \* the variable err of login
    selfSend,     \* <<>> or <<the result of Self().Text>>
    err,          \* the variable err of Run's closure, captured by both callbacks
    runResult,    \* what Run returned (nil until it returns)
    transportUp,  \* the transport is connected and delivers updates
    subscribed,   \* update kinds with a registered callback
    trace,        \* the steps of Run taken so far, in order
    cb,           \* per update kind: the callback invocation in progress or last finished
    routed,       \* <<>> or <<the latest standalone dispatch>>
    canceled,     \* the caller of Run has canceled its context
    delivered,    \* per update kind: how many recorded deliveries
    handled       \* the recorded command handler invocations, in order

\* What Run's code neither reads nor writes.
envVars == << canceled, delivered, handled >>

vars ==
    << runPc, authState, status, loginErr, selfSend, err, runResult, transportUp,
       subscribed, trace, cb, routed, canceled, delivered, handled >>

runVars ==
    << runPc, authState, status, loginErr, selfSend, runResult, transportUp,
       subscribed, trace >>

NoCallback ==
    [pc |-> "new", update |-> Message(FALSE, <<>>), res |-> Outcome(nil, <<>>, <<>>),
     logged |-> <<>>, returned |-> <<>>]

\* The state after MustNewTelegramPresentation: nothing connected, no callback
\* registered.
Init ==
    /\ runPc = "start"
    /\ authState = "Unauthenticated"
    /\ status = <<>>
    /\ loginErr = nil
    /\ selfSend = <<>>
    /\ err = nil
    /\ runResult = nil
    /\ transportUp = FALSE
    /\ subscribed = {}
    /\ trace = <<>>
    /\ cb = [k \in Kinds |-> NoCallback]
    /\ routed = <<>>
    /\ canceled = FALSE
    /\ delivered = [k \in Kinds |-> 0]
    /\ handled = <<>>

\* -------------------------------------------------------------------- Run
\* Lines 210-211: waiter.Run and telegramClient.Run connect the transport and
\* call the closure; a failed connect makes Run return the transport's error.
Connect(e) ==
    /\ runPc = "start"
    /\ trace' = Append(trace, "connect")
    /\ IF e = nil
       THEN /\ runPc' = "status"
            /\ transportUp' = TRUE
            /\ runResult' = runResult
       ELSE /\ runPc' = "returned"
            /\ transportUp' = FALSE
            /\ runResult' = e
    /\ UNCHANGED << authState, status, loginErr, selfSend, err, subscribed, cb, routed, envVars >>

\* AuthStatus that never starts the authentication flow.
AuthStatus_noFlow(st) ==
    /\ runPc = "status"
    /\ status' = << st >>
    /\ trace' = Append(trace, "authStatus")
    /\ IF st.ptr = "nil"
       THEN /\ runPc' = "panicked"
            /\ transportUp' = FALSE
            /\ UNCHANGED << authState, loginErr >>
       ELSE /\ loginErr' = st.err
            /\ transportUp' = transportUp
            /\ authState' = authState
            /\ runPc' = "check144"
    /\ UNCHANGED << selfSend, err, runResult, subscribed, cb, routed, envVars >>

\* AuthStatus that starts the authentication flow whatever the status says.
AuthStatus_alwaysFlow(st) ==
    /\ runPc = "status"
    /\ status' = << st >>
    /\ trace' = Append(trace, "authStatus")
    /\ IF st.ptr = "nil"
       THEN /\ runPc' = "panicked"
            /\ transportUp' = FALSE
            /\ UNCHANGED << authState, loginErr >>
       ELSE /\ loginErr' = st.err
            /\ transportUp' = transportUp
            /\ authState' = "Authenticating"
            /\ runPc' = "flow"
    /\ UNCHANGED << selfSend, err, runResult, subscribed, cb, routed, envVars >>

\* Lines 139-141: query the auth status and read status.Authorized.
AuthStatus(st) ==
    /\ runPc = "status"
    /\ status' = << st >>
    /\ trace' = Append(trace, "authStatus")
    /\ IF st.ptr = "nil"
       THEN /\ runPc' = "panicked"
            /\ transportUp' = FALSE
            /\ UNCHANGED << authState, loginErr >>
       ELSE /\ loginErr' = st.err
            /\ transportUp' = transportUp
            /\ IF ~st.Authorized
               THEN /\ authState' = "Authenticating"
                    /\ runPc' = "flow"
               ELSE /\ authState' = authState
                    /\ runPc' = "check144"
    /\ UNCHANGED << selfSend, err, runResult, subscribed, cb, routed, envVars >>

\* Line 142: err = Auth().IfNecessary(ctx, flow).
AuthFlow(e) ==
    /\ runPc = "flow"
    /\ loginErr' = e
    /\ trace' = Append(trace, "authFlow")
    /\ runPc' = "check144"
    /\ UNCHANGED << authState, status, selfSend, err, runResult, transportUp,
                    subscribed, cb, routed, envVars >>

\* CheckAuth returning the error as it is, without errors.Join.
CheckAuth_noJoin ==
    /\ runPc = "check144"
    /\ IF loginErr # nil
       THEN /\ authState' = "Failed"
            /\ err' = loginErr
            /\ runResult' = loginErr
            /\ runPc' = "returned"
       ELSE /\ authState' = "Authorized"
            /\ runPc' = "selfSend"
            /\ UNCHANGED << err, runResult >>
    /\ UNCHANGED << status, loginErr, selfSend, transportUp, subscribed, trace, cb, routed, envVars >>

\* Lines 144-146 and 212-215: a non-nil err makes login return it joined with
\* "error while authenticating", and Run return what login returned.
CheckAuth ==
    /\ runPc = "check144"
    /\ IF loginErr # nil
       THEN /\ authState' = "Failed"
            /\ err' = Join(loginErr, ErrAuthenticating)
            /\ runResult' = Join(loginErr, ErrAuthenticating)
            /\ runPc' = "returned"
       ELSE /\ authState' = "Authorized"
            /\ runPc' = "selfSend"
            /\ UNCHANGED << err, runResult >>
    /\ UNCHANGED << status, loginErr, selfSend, transportUp, subscribed, trace, cb, routed, envVars >>

\* SelfSend that only logs a failed send and lets login return nil.
SelfSend_ignoreError(e) ==
    /\ runPc = "selfSend"
    /\ selfSend' = << e >>
    /\ trace' = Append(trace, "selfNotify")
    /\ err' = nil
    /\ runResult' = runResult
    /\ runPc' = "subscribeChannel"
    /\ UNCHANGED << authState, status, loginErr, transportUp, subscribed, cb, routed, envVars >>

\* Lines 148-153 and 212-215: the self-notification; its error is returned by
\* login and then by Run.
SelfSend(e) ==
    /\ runPc = "selfSend"
    /\ selfSend' = << e >>
    /\ trace' = Append(trace, "selfNotify")
    /\ err' = e
    /\ IF e # nil
       THEN /\ runResult' = e
            /\ runPc' = "returned"
       ELSE /\ runResult' = runResult
            /\ runPc' = "subscribeChannel"
    /\ UNCHANGED << authState, status, loginErr, transportUp, subscribed, cb, routed, envVars >>

\* Lines 217-225.
SubscribeChannel ==
    /\ runPc = "subscribeChannel"
    /\ subscribed' = subscribed \cup {"NewChannelMessage"}
    /\ trace' = Append(trace, "subscribeNewChannelMessage")
    /\ runPc' = "subscribeDirect"
    /\ UNCHANGED << authState, status, loginErr, selfSend, err, runResult,
                    transportUp, cb, routed, envVars >>

\* Lines 227-235, then the call of RunUntilCanceled at line 236.
SubscribeDirect ==
    /\ runPc = "subscribeDirect"
    /\ subscribed' = subscribed \cup {"NewMessage"}
    /\ trace' = Append(trace, "subscribeNewMessage") \o << "block" >>
    /\ runPc' = "blocking"
    /\ UNCHANGED << authState, status, loginErr, selfSend, err, runResult,
                    transportUp, cb, routed, envVars >>

\* Line 236: RunUntilCanceled returns (the transport stopped) and its result
\* is assigned to err.
RunUntilCanceledReturns(e) ==
    /\ runPc = "blocking"
    /\ err' = e
    /\ transportUp' = FALSE
    /\ runPc' = "check237"
    /\ UNCHANGED << authState, status, loginErr, selfSend, runResult, subscribed,
                    trace, cb, routed, envVars >>

\* Lines 237-241: Run returns the value of err.
RunReturn ==
    /\ runPc = "check237"
    /\ runResult' = err
    /\ runPc' = "returned"
    /\ UNCHANGED << authState, status, loginErr, selfSend, err, transportUp,
                    subscribed, trace, cb, routed, envVars >>

\* Lines 209-210 and 236: the caller of Run cancels its context.  Run takes no
\* context: it passes context.Background() to waiter.Run and to
\* RunUntilCanceled, so nothing in Run observes the cancellation.
Cancel ==
    /\ ~canceled
    /\ runPc \notin {"returned", "panicked"}
    /\ canceled' = TRUE
    /\ UNCHANGED << runVars, err, cb, routed, delivered, handled >>

\* -------------------------------------------------------------- callbacks
\* Lines 219 and 229: the transport invokes the callback of kind k with an
\* update; the callback runs routeMessage and assigns its result to err.
Callback(k, update, spamErr, handlerErr, t0, t1) ==
    /\ transportUp
    /\ k \in subscribed
    /\ cb[k].pc \in {"new", "done"}
    /\ t0 <= t1
    /\ LET res == routeMessage(update, spamErr, handlerErr, t0, t1) IN
       /\ err' = res.ret
       /\ cb' = [cb EXCEPT ![k] = [pc |-> "check", update |-> update, res |-> res,
                                   logged |-> <<>>, returned |-> <<>>]]
    /\ UNCHANGED << runVars, routed, canceled >>

\* A delivery that is not recorded.
Deliver(k, update, spamErr, handlerErr, t0, t1) ==
    /\ Callback(k, update, spamErr, handlerErr, t0, t1)
    /\ UNCHANGED << delivered, handled >>

\* The command handlers routeMessage invokes for the n-th update of kind k.
Invocations(k, n, update, spamErr, handlerErr, t0, t1) ==
    LET calls == routeMessage(update, spamErr, handlerErr, t0, t1).calls IN
    [i \in 1 .. Len(SelectSeq(calls, LAMBDA c : c.fn # "spamReactionMessageHandler"))
        |-> [kind |-> k, n |-> n]]

\* A recorded delivery whose callback hands the command handler to another
\* goroutine: the invocation takes place at any point among the recorded ones.
DeliverRecorded_deferred(k, update, spamErr, handlerErr, t0, t1) ==
    /\ delivered["NewChannelMessage"] + delivered["NewMessage"] < MaxDeliveries
    /\ Callback(k, update, spamErr, handlerErr, t0, t1)
    /\ delivered' = [delivered EXCEPT ![k] = delivered[k] + 1]
    /\ \E at \in 0 .. Len(handled) :
          handled' = SubSeq(handled, 1, at)
                     \o Invocations(k, delivered[k] + 1, update, spamErr, handlerErr, t0, t1)
                     \o SubSeq(handled, at + 1, Len(handled))

\* Lines 217-235: a recorded delivery.  The callback and routeMessage call the
\* handler themselves, before they return, so the invocation takes place
\* during the delivery.
DeliverRecorded(k, update, spamErr, handlerErr, t0, t1) ==
    /\ delivered["NewChannelMessage"] + delivered["NewMessage"] < MaxDeliveries
    /\ Callback(k, update, spamErr, handlerErr, t0, t1)
    /\ delivered' = [delivered EXCEPT ![k] = delivered[k] + 1]
    /\ handled' = handled
                    \o Invocations(k, delivered[k] + 1, update, spamErr, handlerErr, t0, t1)

\* Lines 220-222 and 230-232: if err != nil, log it.
CallbackCheck(k) ==
    /\ cb[k].pc = "check"
    /\ cb' = [cb EXCEPT ![k].pc = "return",
                        ![k].logged = IF err # nil THEN << err >> ELSE <<>>]
    /\ UNCHANGED << runVars, err, routed, envVars >>

\* Lines 223 and 233: return err to the transport, which goes on delivering.
CallbackReturn(k) ==
    /\ cb[k].pc = "return"
    /\ cb' = [cb EXCEPT ![k].pc = "done", ![k].returned = << err >>]
    /\ UNCHANGED << runVars, err, routed, envVars >>

Next ==
    \/ \E e \in {nil, ErrTransport} : Connect(e)
    \/ \E st \in StatusResults : AuthStatus(st)
    \/ \E e \in {nil, ErrFlow} : AuthFlow(e)
    \/ CheckAuth
    \/ \E e \in {nil, ErrSend} : SelfSend(e)
    \/ SubscribeChannel
    \/ SubscribeDirect
    \/ \E e \in {nil, ErrTransport} : RunUntilCanceledReturns(e)
    \/ RunReturn
    \/ \E k \in Kinds, u \in RunUpdates, se \in {nil, ErrSpam}, he \in {nil, ErrHandler},
          t0 \in Clock, t1 \in Clock :
          Deliver(k, u, se, he, t0, t1)
    \/ \E k \in Kinds : CallbackCheck(k)
    \/ \E k \in Kinds : CallbackReturn(k)
    \/ Cancel

Spec == Init /\ [][Next]_vars

\* ------------------------------------------------- deliveries in order
\* Run starts up without a failure and blocks; the deliveries are recorded.
OrderNext ==
    \/ Connect(nil)
    \/ AuthStatus([ptr |-> "ok", Authorized |-> TRUE, err |-> nil])
    \/ CheckAuth
    \/ SelfSend(nil)
    \/ SubscribeChannel
    \/ SubscribeDirect
    \/ \E k \in Kinds, u \in RunUpdates, se \in {nil, ErrSpam}, he \in {nil, ErrHandler},
          t0 \in Clock, t1 \in Clock :
          DeliverRecorded(k, u, se, he, t0, t1)
    \/ \E k \in Kinds : CallbackCheck(k)
    \/ \E k \in Kinds : CallbackReturn(k)

SpecOrder == Init /\ [][OrderNext]_vars

\* ------------------------------------------------- dispatch on its own
\* routeMessage applied once to any generated update, with any result of the
\* secondary handler and of the command handler.
Dispatch(update, spamErr, handlerErr, t0, t1) ==
    /\ routed = <<>>
    /\ t0 <= t1
    /\ routed' = << [update |-> update, spamErr |-> spamErr, handlerErr |-> handlerErr,
                     t0 |-> t0, t1 |-> t1,
                     res |-> routeMessage(update, spamErr, handlerErr, t0, t1)] >>
    /\ UNCHANGED << runVars, err, cb, envVars >>

RouteNext ==
    \E u \in Updates, se \in {nil, ErrSpam}, he \in {nil, ErrHandler},
       t0 \in Clock, t1 \in Clock :
        Dispatch(u, se, he, t0, t1)

SpecRoute == Init /\ [][RouteNext]_vars

\* ----------------------------------------------------------- vocabulary
Range(s) == { s[i] : i \in DOMAIN s }

IsPrefix(s, t) == Len(s) <= Len(t) /\ s = SubSeq(t, 1, Len(s))

\* The command handlers a dispatch invoked, without the secondary handler.
CommandCalls(res) == SelectSeq(res.calls, LAMBDA c : c.fn # "spamReactionMessageHandler")

SpamCalls(res) == SelectSeq(res.calls, LAMBDA c : c.fn = "spamReactionMessageHandler")

\* tok is the first whitespace-separated token of text: white space before
\* it, none in it, white space or the end of the text after it.
IsFirstToken(text, tok) ==
    /\ tok # <<>>
    /\ \A n \in DOMAIN tok : tok[n] \notin {" ", "\t", "\n"}
    /\ \E i \in 0 .. Len(text) :
          /\ \A n \in 1 .. i : text[n] \in {" ", "\t", "\n"}
          /\ i + Len(tok) <= Len(text)
          /\ SubSeq(text, i + 1, i + Len(tok)) = tok
          /\ (i + Len(tok) = Len(text) \/ text[i + Len(tok) + 1] \in {" ", "\t", "\n"})

\* The pieces of text that start at its first character that is not white
\* space: the candidates for its first token.
Pieces(text) ==
    LET starts == { a \in DOMAIN text :
                      /\ text[a] \notin {" ", "\t", "\n"}
                      /\ \A n \in 1 .. (a - 1) : text[n] \in {" ", "\t", "\n"} }
    IN  { SubSeq(text, a, b) : a \in starts, b \in DOMAIN text }

IsBlank(text) == \A n \in DOMAIN text : text[n] \in {" ", "\t", "\n"}

\* The standalone dispatch d is of a message (not a channel post when
\* post is FALSE) whose first token is tok.
DispatchedToken(d, post, tok) ==
    /\ d.update.shape = "Message"
    /\ d.update.Post = post
    /\ IsFirstToken(d.update.Message, tok)

Registered == { ping, help, getMe, spamReaction }

HandlerOf(c) ==
    CASE c = ping -> "pingCommandHandler"
      [] c = help -> "helpCommandHandler"
      [] c = getMe -> "getMeCommandHandler"
      [] c = spamReaction -> "spamReactionCommandHandler"

\* ------------------------------------------------------------------ claims
\* C1: per-update error isolation.  When routeMessage returns an error for an
\* update, the callback logs that error (checked while Run blocks), the
\* subscription stays registered, and Run never returns a per-update error: only a failed login or the end
\* of the transport's run loop makes Run return.
C1_ErrorIsolation ==
    /\ \A k \in Kinds :
          (runPc = "blocking" /\ cb[k].pc \in {"return", "done"} /\ cb[k].res.ret # nil)
              => (cb[k].logged = << cb[k].res.ret >> /\ k \in subscribed)
    /\ runPc = "returned" => runResult \notin {BadUpdate, ErrSpam, ErrHandler}

\* C2 as stated: for a registered command c and a non-post message whose first
\* token is "!c", dispatch invokes the handler of c exactly once with the
\* full message, and no other command handler.
C2_RegisteredAlwaysInvoked ==
    routed # <<>> =>
        \A c \in Registered :
            DispatchedToken(routed[1], FALSE, <<"!">> \o c)
                => CommandCalls(routed[1].res) = << Call(HandlerOf(c), routed[1].update) >>

\* C2 amended: for a registered command c and a non-post message whose first
\* token is "!c", dispatch invokes the handler of c exactly once with the full
\* message and no other command handler when the secondary handler succeeds;
\* when the secondary handler fails, dispatch returns its error and invokes no
\* command handler.
C2_RegisteredInvokedOnce ==
    routed # <<>> =>
        \A c \in Registered :
            DispatchedToken(routed[1], FALSE, <<"!">> \o c)
                => IF routed[1].spamErr = nil
                   THEN CommandCalls(routed[1].res)
                            = << Call(HandlerOf(c), routed[1].update) >>
                   ELSE /\ CommandCalls(routed[1].res) = <<>>
                        /\ routed[1].res.ret = routed[1].spamErr

\* A dispatch of "!ping" followed by further text, the secondary handler
\* succeeding, that invoked the ping handler.
C2_Witness ==
    /\ routed # <<>>
    /\ DispatchedToken(routed[1], FALSE, <<"!">> \o ping)
    /\ Len(Fields(routed[1].update.Message)) > 1
    /\ routed[1].spamErr = nil
    /\ Len(CommandCalls(routed[1].res)) = 1

FlowFailed == Len(trace) >= 3 /\ trace[3] = "authFlow" /\ loginErr = ErrFlow

\* C4: when the authentication flow fails, the flow is not run again, no
\* self-notification is sent, no subscription is registered, and Run returns
\* the flow's error joined with "error while authenticating", the
\* authenticator ending in Failed.
C4_AuthFailureFatal ==
    FlowFailed =>
        /\ Cardinality({ i \in DOMAIN trace : trace[i] = "authFlow" }) = 1
        /\ selfSend = <<>>
        /\ subscribed = {}
        /\ runPc \in {"check144", "returned"}
        /\ runPc = "returned" =>
              /\ runResult = ErrFlow \o ErrAuthenticating
              /\ authState = "Failed"
              /\ trace[Len(trace)] = "authFlow"

\* Run has returned after a failed authentication flow.
C4_Witness == FlowFailed /\ runPc = "returned"

\* C5: the steps of Run happen in the order connect, authentication (status
\* query, then the flow when it is needed), one self-notification, the
\* new-channel-message subscription, the new-direct-message subscription,
\* blocking; a session reported not authorized runs the flow before the
\* self-notification; no handler is invoked before Authorized.
C5_RunOrder ==
    /\ \/ IsPrefix(trace, << "connect", "authStatus", "authFlow", "selfNotify",
                            "subscribeNewChannelMessage", "subscribeNewMessage", "block" >>)
       \/ IsPrefix(trace, << "connect", "authStatus", "selfNotify",
                            "subscribeNewChannelMessage", "subscribeNewMessage", "block" >>)
    /\ ("selfNotify" \in Range(trace) /\ ~status[1].Authorized) => trace[3] = "authFlow"
    /\ "selfNotify" \in Range(trace) => authState = "Authorized"
    /\ subscribed # {} => selfSend = << nil >>
    /\ subscribed = { k \in Kinds : ("subscribe" \o k) \in Range(trace) }
    /\ runPc = "blocking" => (subscribed = Kinds /\ trace[Len(trace)] = "block")
    /\ \A k \in Kinds :
          cb[k].pc # "new" => (authState = "Authorized" /\ selfSend = << nil >>)

\* Run blocks after a session reported not authorized went through the flow,
\* and a command handler has been invoked.
C5_Witness ==
    /\ runPc = "blocking"
    /\ ~status[1].Authorized
    /\ \E k \in Kinds : CommandCalls(cb[k].res) # <<>>

\* C6: for a channel post, dispatch returns success and invokes neither a
\* command handler nor the secondary handler, whatever the text is.
C6_PostDropped ==
    (routed # <<>> /\ routed[1].update.shape = "Message" /\ routed[1].update.Post)
        => (routed[1].res.ret = nil /\ routed[1].res.calls = <<>>)

\* A channel post whose text starts with a registered command was dispatched,
\* with both handlers set to fail if they were invoked.
C6_Witness ==
    /\ routed # <<>>
    /\ DispatchedToken(routed[1], TRUE, <<"!">> \o ping)
    /\ routed[1].spamErr # nil
    /\ routed[1].handlerErr # nil

\* C7 as stated: for a message whose first token lacks the prefix, no command
\* handler executes and dispatch returns success.
C7_NoPrefixSucceeds ==
    routed # <<>> =>
        \A tok \in Pieces(routed[1].update.Message) :
            (DispatchedToken(routed[1], routed[1].update.Post, tok) /\ tok[1] # "!")
                => (CommandCalls(routed[1].res) = <<>> /\ routed[1].res.ret = nil)

\* C7 amended: for a message whose first token lacks the prefix, no command
\* handler executes, and dispatch returns success unless the message is not a
\* channel post and the secondary handler fails: then it returns the
\* secondary handler's error.
C7_NoPrefixNoCommand ==
    routed # <<>> =>
        \A tok \in Pieces(routed[1].update.Message) :
            (DispatchedToken(routed[1], routed[1].update.Post, tok) /\ tok[1] # "!")
                => /\ CommandCalls(routed[1].res) = <<>>
                   /\ routed[1].res.ret
                         = IF routed[1].update.Post THEN nil ELSE routed[1].spamErr

\* A non-post message whose first token is a registered name behind another
\* first character was dispatched, the secondary handler succeeding.
C7_Witness ==
    /\ routed # <<>>
    /\ DispatchedToken(routed[1], FALSE, <<"x">> \o ping)
    /\ routed[1].spamErr = nil
    /\ SpamCalls(routed[1].res) # <<>>

\* The warnings a dispatch logged for the unknown command x.
UnknownWarnings(res, x) ==
    SelectSeq(res.log, LAMBDA l : l = Log("warn", "unknown.command", x))

\* C8 as stated: for a message whose first token is "!x" with x not
\* registered (case-sensitively; x may be empty), dispatch logs a warning,
\* invokes no command handler and returns success.
C8_UnknownWarned ==
    routed # <<>> =>
        \A tok \in Pieces(routed[1].update.Message) :
            ( /\ DispatchedToken(routed[1], routed[1].update.Post, tok)
              /\ tok[1] = "!"
              /\ Tail(tok) \notin Registered )
                => /\ Len(UnknownWarnings(routed[1].res, Tail(tok))) = 1
                   /\ CommandCalls(routed[1].res) = <<>>
                   /\ routed[1].res.ret = nil

\* C8 amended: for a message whose first token is "!x" with x not registered
\* (case-sensitively; x may be empty), dispatch invokes no command handler;
\* when the message is not a channel post and the secondary handler succeeds,
\* it logs one warning naming x and returns success; a channel post is
\* dropped with success and no warning; when the secondary handler fails,
\* dispatch returns its error and logs no warning.
C8_UnknownNoHandler ==
    routed # <<>> =>
        \A tok \in Pieces(routed[1].update.Message) :
            ( /\ DispatchedToken(routed[1], routed[1].update.Post, tok)
              /\ tok[1] = "!"
              /\ Tail(tok) \notin Registered )
                => /\ CommandCalls(routed[1].res) = <<>>
                   /\ IF ~routed[1].update.Post /\ routed[1].spamErr = nil
                      THEN /\ Len(UnknownWarnings(routed[1].res, Tail(tok))) = 1
                           /\ routed[1].res.ret = nil
                      ELSE /\ UnknownWarnings(routed[1].res, Tail(tok)) = <<>>
                           /\ routed[1].res.ret
                                 = IF routed[1].update.Post THEN nil ELSE routed[1].spamErr

\* A non-post message "!Ping" (a registered name in another letter case) was
\* dispatched, the secondary handler succeeding, and the warning was logged.
C8_Witness ==
    /\ routed # <<>>
    /\ DispatchedToken(routed[1], FALSE, <<"!", "P", "i", "n", "g">>)
    /\ routed[1].spamErr = nil
    /\ Len(UnknownWarnings(routed[1].res, <<"P", "i", "n", "g">>)) = 1

\* C9: for a non-post message whose text has no token (empty or white space
\* only), dispatch returns success and invokes no command handler.
C9_NoTokensDropped ==
    ( /\ routed # <<>>
      /\ routed[1].update.shape = "Message"
      /\ ~routed[1].update.Post
      /\ IsBlank(routed[1].update.Message) )
        => (routed[1].res.ret = nil /\ CommandCalls(routed[1].res) = <<>>)

\* A non-post message of white space only was dispatched, with the secondary
\* handler set to fail if it were invoked.
C9_Witness ==
    /\ routed # <<>>
    /\ routed[1].update.shape = "Message"
    /\ ~routed[1].update.Post
    /\ routed[1].update.Message # <<>>
    /\ IsBlank(routed[1].update.Message)
    /\ routed[1].spamErr # nil

\* C10: for an update whose payload is not of the message shape, dispatch
\* returns BadUpdate and invokes no handler, the callback logs that error
\* (checked while Run blocks), and the subscription stays registered.
C10_BadUpdateLogged ==
    \A k \in Kinds :
        ( /\ runPc = "blocking"
          /\ cb[k].pc \in {"return", "done"}
          /\ cb[k].update.shape # "Message" )
            => /\ cb[k].res.ret = BadUpdate
               /\ cb[k].res.calls = <<>>
               /\ cb[k].logged = << BadUpdate >>
               /\ k \in subscribed

\* C14: after the caller of Run has canceled its context, no new command
\* handler is dispatched: no callback invoked from then on reaches a command
\* handler (the part of the claim a finite run refutes; the claim also says
\* that the cancellation reaches the blocking wait and Run then returns).
C14_NoDispatchAfterCancel ==
    [][canceled =>
          \A k \in Kinds :
              (cb[k].pc # "check" /\ cb'[k].pc = "check") => CommandCalls(cb'[k].res) = <<>>]_vars

\* The standalone dispatch d is of a qualifying message: of the message
\* shape, not a channel post, with at least one token.
Qualifying(d) ==
    /\ d.update.shape = "Message"
    /\ ~d.update.Post
    /\ ~IsBlank(d.update.Message)

\* C15: for every qualifying message the secondary handler is invoked exactly
\* once, with the message, before any command handler, whether or not the
\* first token is a command; when it fails, dispatch returns its error and
\* invokes no command handler.
C15_SecondaryFirst ==
    (routed # <<>> /\ Qualifying(routed[1])) =>
        /\ Len(SpamCalls(routed[1].res)) = 1
        /\ routed[1].res.calls[1] = Call("spamReactionMessageHandler", routed[1].update)
        /\ routed[1].spamErr # nil =>
              /\ routed[1].res.ret = routed[1].spamErr
              /\ CommandCalls(routed[1].res) = <<>>

\* A dispatch of "!ping" that invoked the secondary handler and then the
\* ping handler.
C15_Witness ==
    /\ routed # <<>>
    /\ DispatchedToken(routed[1], FALSE, <<"!">> \o ping)
    /\ Len(routed[1].res.calls) = 2
    /\ routed[1].res.calls[2].fn = "pingCommandHandler"

\* The events a dispatch logged at level info.
InfoLog(res) == SelectSeq(res.log, LAMBDA l : l.level = "info")

\* C16: for a known command whose handler is invoked, dispatch returns what
\* the handler returned; when the handler fails, no "ok" is logged; when it
\* succeeds, the info events are command.got(c) and then ok with a duration
\* >= 0 (the clock reading after the handler minus the one before).  An "ok"
\* is never logged without a command.got before it.
C16_HandlerResult ==
    routed # <<>> =>
        /\ \A c \in Registered :
              (DispatchedToken(routed[1], FALSE, <<"!">> \o c) /\ routed[1].spamErr = nil)
                  => /\ routed[1].res.ret = routed[1].handlerErr
                     /\ IF routed[1].handlerErr # nil
                        THEN InfoLog(routed[1].res) = << Log("info", "command.got", c) >>
                        ELSE /\ Len(InfoLog(routed[1].res)) = 2
                             /\ InfoLog(routed[1].res)[1] = Log("info", "command.got", c)
                             /\ InfoLog(routed[1].res)[2].status = "ok"
                             /\ InfoLog(routed[1].res)[2].dur
                                   = << routed[1].t1 - routed[1].t0 >>
                             /\ InfoLog(routed[1].res)[2].dur[1] >= 0
        /\ \A i \in DOMAIN routed[1].res.log :
              routed[1].res.log[i].status = "ok"
                  => \E j \in 1 .. (i - 1) : routed[1].res.log[j].status = "command.got"

\* A dispatch of "!help" whose handler succeeded after the clock advanced.
C16_Witness ==
    /\ routed # <<>>
    /\ DispatchedToken(routed[1], FALSE, <<"!">> \o help)
    /\ routed[1].spamErr = nil
    /\ routed[1].handlerErr = nil
    /\ routed[1].t1 > routed[1].t0
    /\ Len(InfoLog(routed[1].res)) = 2

\* Auth().Status succeeded and reported the session as authorized.
ReportedAuthorized ==
    /\ status # <<>>
    /\ status[1].ptr = "ok"
    /\ status[1].err = nil
    /\ status[1].Authorized

\* C17: when the status query reports the session as authorized, the
\* authentication flow is never invoked, the authenticator goes from
\* Unauthenticated straight to Authorized, and login sends exactly one
\* self-notification.
C17_AlreadyAuthorized ==
    ReportedAuthorized =>
        /\ "authFlow" \notin Range(trace)
        /\ authState = IF runPc = "check144" THEN "Unauthenticated" ELSE "Authorized"
        /\ Cardinality({ i \in DOMAIN trace : trace[i] = "selfNotify" })
              = IF runPc \in {"check144", "selfSend"} THEN 0 ELSE 1

\* Run blocks after a status query that reported the session as authorized.
C17_Witness == ReportedAuthorized /\ runPc = "blocking"

\* C18: within one subscription the command handlers are invoked in the
\* order of delivery: of two recorded invocations for the same update kind,
\* the earlier one belongs to the update delivered earlier.
C18_DeliveryOrder ==
    \A i \in DOMAIN handled, j \in DOMAIN handled :
        (i < j /\ handled[i].kind = handled[j].kind) => handled[i].n < handled[j].n

\* Two handler invocations for updates of one kind, and between the two
\* deliveries nothing of the other kind.
C18_Witness ==
    /\ Len(handled) >= 2
    /\ handled[1].kind = handled[2].kind
    /\ delivered[handled[1].kind] >= 2

\* C19: a callback logs and returns the result of its own routeMessage call
\* (checked while Run blocks): it never reports success for an update whose
\* dispatch failed, and never another update's error.
C19_OwnResult ==
    \A k \in Kinds :
        (runPc = "blocking" /\ cb[k].pc = "done")
            => /\ cb[k].returned = << cb[k].res.ret >>
               /\ cb[k].logged = IF cb[k].res.ret # nil THEN << cb[k].res.ret >> ELSE <<>>

\* C20: when the status query fails, login does not reach Authorized and
\* sends no self-notification, and what Run returns is the query's error
\* joined with "error while authenticating".
C20_StatusErrorKept ==
    (status # <<>> /\ status[1].err # nil) =>
        /\ authState # "Authorized"
        /\ selfSend = <<>>
        /\ runPc = "returned" => runResult = status[1].err \o ErrAuthenticating

====
